---- MODULE Spec2Model ----
(***************************************************************************)
(* Model of tiny_dnn/xtensor/xiterable.hpp: the iteration capability       *)
(* (xconst_iterable / xiterable) that builds forward, reverse, const,      *)
(* mutable and broadcast iterators over a container from the container's   *)
(* shape() and its stepper_begin / stepper_end factories.                  *)
(*                                                                         *)
(* The stepper, xiterator and std::reverse_iterator are collaborators that *)
(* xiterable.hpp only uses; they are modelled from their contract          *)
(* (spec.md, sections 3, 4.3 and 4.4).                                     *)
(***************************************************************************)
EXTENDS Integers, Sequences, FiniteSets, TLC

\* ------------------------------------------------------------------ bounds
MaxRank == 2
MaxExtent == 3
MaxElems == 6
MaxWrites == 1

\* ------------------------------------------------------------------ layouts
row_major == "row_major"
column_major == "column_major"
Layouts == {row_major, column_major}

\* #define DL DEFAULT_LAYOUT (xtensor's default layout is row-major)
DL == row_major

\* ------------------------------------------------------------------ shapes
RECURSIVE Prod(_, _)
Prod(S, n) == IF n = 0 THEN 1 ELSE S[n] * Prod(S, n - 1)

\* Number of elements of the iteration space described by shape S.
Size(S) == Prod(S, Len(S))

Shapes ==
  { S \in UNION { [1..r -> 0..MaxExtent] : r \in 0..MaxRank } : Size(S) <= MaxElems }

Zeros(n) == [d \in 1..n |-> 0]

\* Container shape C can be broadcast to the driving shape S: the trailing
\* dimensions of S match those of C, except where C has extent 1.
Compatible(C, S) ==
  /\ Len(C) <= Len(S)
  /\ \A j \in 1..Len(C) :
       \/ C[j] = S[Len(S) - Len(C) + j]
       \/ C[j] = 1

\* ------------------------------------------------------------------ state
VARIABLES
  shape,    \* the container's own shape, returned by shape()
  data,     \* the container's elements, stored row-major
  call,     \* the entry point the consumer called last (NoCall before any)
  it,       \* the iterator the consumer is advancing
  last,     \* the end iterator the consumer compares against
  out,      \* what the consumer's iterator has yielded so far
  it2,      \* a second iterator: a second call of the same entry point, or a copy
  out2,     \* what the second iterator has yielded so far
  writes    \* number of assignments made through a mutable iterator

vars == <<shape, data, call, it, last, out, it2, out2, writes>>

NoCall == [fn |-> "none"]
NoIt == [none |-> TRUE]

\* ------------------------------------------------------------------ stepper
\* (external collaborator: a cursor over the index space of `shape`)

\* The dimension a layout moves through fastest.
Fastest(S, L) == IF L = row_major THEN Len(S) ELSE 1

\* Dimensions of S ordered from the fastest to the slowest of layout L.
DimOrder(S, L) == [i \in 1..Len(S) |-> IF L = row_major THEN Len(S) + 1 - i ELSE i]

LastIdx(S) == [d \in 1..Len(S) |-> S[d] - 1]

\* One-past-last position of layout l: the last index stepped once more along
\* the fastest dimension of l.
EndIdx(S, l) ==
  [d \in 1..Len(S) |-> IF d = Fastest(S, l) THEN S[d] ELSE S[d] - 1]

\* derived().stepper_begin(shape)
stepper_begin(S, mut) ==
  [shape |-> S, idx |-> Zeros(Len(S)), past |-> FALSE, mut |-> mut]

\* derived().stepper_end(shape, l)
stepper_end(S, l, mut) ==
  IF Size(S) = 0
    THEN stepper_begin(S, mut)
    ELSE [shape |-> S, idx |-> EndIdx(S, l), past |-> TRUE, mut |-> mut]

\* Stepper equality: same driving shape and same position.
StepperEq(s, t) == s.shape = t.shape /\ s.idx = t.idx /\ s.past = t.past

\* One step forward in layout L (an odometer over the index space).
StepperIncr(s, L) ==
  LET S == s.shape
      ord == DimOrder(S, L)
      free == { i \in 1..Len(S) : s.idx[ord[i]] < S[ord[i]] - 1 }
  IN  IF free = {}
        THEN [s EXCEPT !.idx = [d \in 1..Len(S) |->
                                  IF d = Fastest(S, L) THEN s.idx[d] + 1 ELSE s.idx[d]],
                       !.past = TRUE]
        ELSE LET i == CHOOSE x \in free : \A y \in free : x <= y
             IN  [s EXCEPT !.idx = [d \in 1..Len(S) |->
                                      IF d = ord[i] THEN s.idx[d] + 1
                                      ELSE IF \E j \in 1..(i - 1) : ord[j] = d THEN 0
                                      ELSE s.idx[d]]]

\* One step backward in layout L. Stepping back from the first position is
\* outside the stepper's contract; no traversal does it.
StepperDecr(s, L) ==
  LET S == s.shape
      ord == DimOrder(S, L)
      free == { i \in 1..Len(S) : s.idx[ord[i]] > 0 }
  IN  IF s.past
        THEN [s EXCEPT !.idx = [d \in 1..Len(S) |->
                                  IF d = Fastest(S, L) THEN s.idx[d] - 1 ELSE s.idx[d]],
                       !.past = FALSE]
        ELSE IF free = {} THEN s
        ELSE LET i == CHOOSE x \in free : \A y \in free : x <= y
             IN  [s EXCEPT !.idx = [d \in 1..Len(S) |->
                                      IF d = ord[i] THEN s.idx[d] - 1
                                      ELSE IF \E j \in 1..(i - 1) : ord[j] = d THEN S[d] - 1
                                      ELSE s.idx[d]]]

\* Storage offset (1-based, row-major storage) of the container element that
\* the position idx of the driving shape S designates, by broadcasting.
RECURSIVE OffsetFrom(_, _, _, _)
OffsetFrom(C, S, idx, j) ==
  IF j = 0 THEN 0
  ELSE LET c == IF C[j] = 1 THEN 0 ELSE idx[Len(S) - Len(C) + j]
       IN  OffsetFrom(C, S, idx, j - 1) * C[j] + c

Offset(C, S, idx) == 1 + OffsetFrom(C, S, idx, Len(C))

\* Dereference of a stepper: a reference to an element of the container.
StepperDeref(s) ==
  LET ref == Offset(shape, s.shape, s.idx)
  IN  [idx |-> s.idx, ref |-> ref, val |-> IF ref \in DOMAIN data THEN data[ref] ELSE -1]

\* ------------------------------------------------------------------ xiterator
\* xiterator<St, S, L>(stepper, shape, reverse)
xiterator(st, shp, L, reverse) ==
  [st |-> st, shape |-> shp, L |-> L, reverse |-> reverse]

\* std::reverse_iterator<It>(it)
reverse_iterator(x) == [current |-> x]

IsReverse(i) == "current" \in DOMAIN i

\* operator== of two iterators of the same type
Equal(a, b) ==
  IF IsReverse(a) THEN StepperEq(a.current.st, b.current.st)
  ELSE StepperEq(a.st, b.st)

\* operator++
Incr(i) ==
  IF IsReverse(i)
    THEN [current |-> [i.current EXCEPT !.st = StepperDecr(i.current.st, i.current.L)]]
    ELSE [i EXCEPT !.st = StepperIncr(i.st, i.L)]

\* operator*
Deref(i) ==
  IF IsReverse(i)
    THEN StepperDeref(StepperDecr(i.current.st, i.current.L))
    ELSE StepperDeref(i.st)

\* The shape an iterator is driven by, and its layout.
Base(i) == IF IsReverse(i) THEN i.current ELSE i

\* ------------------------------------------------------------------ xconst_iterable
get_shape == shape

\* &get_shape(): a pointer to the container's own shape
OwnShapeRef == [own |-> TRUE, ext |-> get_shape]

\* a caller-supplied shape
ArgShapeRef(S) == [own |-> FALSE, ext |-> S]

get_stepper_begin(S) == stepper_begin(S, FALSE)

get_stepper_end(S, l) == stepper_end(S, l, FALSE)

\* Mutant: the iterator is built for the default layout, not for L.
get_cbegin_default_layout(L, reverse) ==
  xiterator(get_stepper_begin(get_shape), OwnShapeRef, DL, reverse)

get_cbegin(L, reverse) ==
  xiterator(get_stepper_begin(get_shape), OwnShapeRef, L, reverse)

\* Mutant: the end stepper is requested for the default layout, not for L.
get_cend_default_layout(L, reverse) ==
  xiterator(get_stepper_end(get_shape, DL), OwnShapeRef, L, reverse)

get_cend(L, reverse) ==
  xiterator(get_stepper_end(get_shape, L), OwnShapeRef, L, reverse)

\* Mutant: a shape the container cannot be broadcast to is replaced by the
\* container's own shape.
get_cbegin_s_checked(S, L, reverse) ==
  IF Compatible(get_shape, S)
    THEN xiterator(get_stepper_begin(S), ArgShapeRef(S), L, reverse)
    ELSE xiterator(get_stepper_begin(get_shape), OwnShapeRef, L, reverse)

get_cbegin_s(S, L, reverse) ==
  xiterator(get_stepper_begin(S), ArgShapeRef(S), L, reverse)

\* Mutant: the end stepper is requested for the container's own shape.
get_cend_s_own_shape(S, L, reverse) ==
  xiterator(get_stepper_end(get_shape, L), ArgShapeRef(S), L, reverse)

get_cend_s(S, L, reverse) ==
  xiterator(get_stepper_end(S, L), ArgShapeRef(S), L, reverse)

cbegin(L) == get_cbegin(L, FALSE)

cend(L) == get_cend(L, FALSE)

\* Mutant: begin ignores its layout argument.
begin_default_layout(L) == cbegin(DL)

begin(L) == cbegin(L)

end(L) == cend(L)

\* Mutant: the reverse begin wraps the forward begin instead of the forward end.
crbegin_same_endpoint(L) == reverse_iterator(get_cbegin(L, TRUE))

crbegin(L) == reverse_iterator(get_cend(L, TRUE))

\* Mutant: the reverse end is built with the reverse flag clear.
crend_flag_clear(L) == reverse_iterator(get_cbegin(L, FALSE))

crend(L) == reverse_iterator(get_cbegin(L, TRUE))

rbegin(L) == crbegin(L)

rend(L) == crend(L)

cbegin_s(S, L) == get_cbegin_s(S, L, FALSE)

cend_s(S, L) == get_cend_s(S, L, FALSE)

begin_s(S, L) == cbegin_s(S, L)

end_s(S, L) == cend_s(S, L)

crbegin_s(S, L) == reverse_iterator(get_cend_s(S, L, TRUE))

crend_s(S, L) == reverse_iterator(get_cbegin_s(S, L, TRUE))

rbegin_s(S, L) == crbegin_s(S, L)

rend_s(S, L) == crend_s(S, L)

storage_begin(L) == cbegin(L)

storage_end(L) == cend(L)

storage_cbegin(L) == cbegin(L)

\* Mutant: storage_cend returns the begin iterator.
storage_cend_begin(L) == cbegin(L)

storage_cend(L) == cend(L)

storage_rbegin(L) == crbegin(L)

storage_rend(L) == crend(L)

storage_crbegin(L) == crbegin(L)

storage_crend(L) == crend(L)

\* ------------------------------------------------------------------ xiterable
m_get_stepper_begin(S) == stepper_begin(S, TRUE)

m_get_stepper_end(S, l) == stepper_end(S, l, TRUE)

\* Mutant: the stepper of the consumer's live iterator is handed out again
\* instead of a fresh one.
get_begin_stale(L, reverse) ==
  xiterator(IF it # NoIt /\ ~IsReverse(it) THEN it.st ELSE m_get_stepper_begin(get_shape),
            OwnShapeRef, L, reverse)

\* Mutant: the iterator is built for the other layout.
get_begin_other_layout(L, reverse) ==
  xiterator(m_get_stepper_begin(get_shape), OwnShapeRef,
            IF L = row_major THEN column_major ELSE row_major, reverse)

get_begin(L, reverse) ==
  xiterator(m_get_stepper_begin(get_shape), OwnShapeRef, L, reverse)

get_end(L, reverse) ==
  xiterator(m_get_stepper_end(get_shape, L), OwnShapeRef, L, reverse)

get_begin_s(S, L, reverse) ==
  xiterator(m_get_stepper_begin(S), ArgShapeRef(S), L, reverse)

get_end_s(S, L, reverse) ==
  xiterator(m_get_stepper_end(S, L), ArgShapeRef(S), L, reverse)

m_begin(L) == get_begin(L, FALSE)

m_end(L) == get_end(L, FALSE)

m_rbegin(L) == reverse_iterator(get_end(L, TRUE))

m_rend(L) == reverse_iterator(get_begin(L, TRUE))

m_begin_s(S, L) == get_begin_s(S, L, FALSE)

m_end_s(S, L) == get_end_s(S, L, FALSE)

\* Mutant: the broadcast reverse begin is built on the container's own shape.
m_rbegin_s_own_shape(S, L) == reverse_iterator(get_end(L, TRUE))

m_rbegin_s(S, L) == reverse_iterator(get_end_s(S, L, TRUE))

m_rend_s(S, L) == reverse_iterator(get_begin_s(S, L, TRUE))

m_storage_begin(L) == m_begin(L)

m_storage_end(L) == m_end(L)

m_storage_rbegin(L) == m_rbegin(L)

m_storage_rend(L) == m_rend(L)

\* ------------------------------------------------------------------ consumer
\* The entry points, by name. A call is [fn, mut, bc, L, S]: the function's
\* name, whether the mutable (xiterable) overload is selected, whether it is
\* the broadcast overload, the layout template argument and the driving shape.
ConstFns ==
  {"begin", "cbegin", "rbegin", "crbegin",
   "storage_begin", "storage_cbegin", "storage_rbegin", "storage_crbegin"}

MutableFns == {"begin", "rbegin", "storage_begin", "storage_rbegin"}

ConstBroadcastFns == {"begin", "cbegin", "rbegin", "crbegin"}

MutableBroadcastFns == {"begin", "rbegin"}

ReverseFns == {"rbegin", "crbegin", "storage_rbegin", "storage_crbegin"}

\* The iterator the called entry point returns.
First(c) ==
  CASE ~c.mut /\ ~c.bc /\ c.fn = "begin" -> begin(c.L)
    [] ~c.mut /\ ~c.bc /\ c.fn = "cbegin" -> cbegin(c.L)
    [] ~c.mut /\ ~c.bc /\ c.fn = "rbegin" -> rbegin(c.L)
    [] ~c.mut /\ ~c.bc /\ c.fn = "crbegin" -> crbegin(c.L)
    [] ~c.mut /\ ~c.bc /\ c.fn = "storage_begin" -> storage_begin(c.L)
    [] ~c.mut /\ ~c.bc /\ c.fn = "storage_cbegin" -> storage_cbegin(c.L)
    [] ~c.mut /\ ~c.bc /\ c.fn = "storage_rbegin" -> storage_rbegin(c.L)
    [] ~c.mut /\ ~c.bc /\ c.fn = "storage_crbegin" -> storage_crbegin(c.L)
    [] ~c.mut /\ c.bc /\ c.fn = "begin" -> begin_s(c.S, c.L)
    [] ~c.mut /\ c.bc /\ c.fn = "cbegin" -> cbegin_s(c.S, c.L)
    [] ~c.mut /\ c.bc /\ c.fn = "rbegin" -> rbegin_s(c.S, c.L)
    [] ~c.mut /\ c.bc /\ c.fn = "crbegin" -> crbegin_s(c.S, c.L)
    [] c.mut /\ ~c.bc /\ c.fn = "begin" -> m_begin(c.L)
    [] c.mut /\ ~c.bc /\ c.fn = "rbegin" -> m_rbegin(c.L)
    [] c.mut /\ ~c.bc /\ c.fn = "storage_begin" -> m_storage_begin(c.L)
    [] c.mut /\ ~c.bc /\ c.fn = "storage_rbegin" -> m_storage_rbegin(c.L)
    [] c.mut /\ c.bc /\ c.fn = "begin" -> m_begin_s(c.S, c.L)
    [] c.mut /\ c.bc /\ c.fn = "rbegin" -> m_rbegin_s(c.S, c.L)

\* The iterator of the matching end entry point (end for begin, rend for
\* rbegin, ...), which the consumer compares against.
Last(c) ==
  CASE ~c.mut /\ ~c.bc /\ c.fn = "begin" -> end(c.L)
    [] ~c.mut /\ ~c.bc /\ c.fn = "cbegin" -> cend(c.L)
    [] ~c.mut /\ ~c.bc /\ c.fn = "rbegin" -> rend(c.L)
    [] ~c.mut /\ ~c.bc /\ c.fn = "crbegin" -> crend(c.L)
    [] ~c.mut /\ ~c.bc /\ c.fn = "storage_begin" -> storage_end(c.L)
    [] ~c.mut /\ ~c.bc /\ c.fn = "storage_cbegin" -> storage_cend(c.L)
    [] ~c.mut /\ ~c.bc /\ c.fn = "storage_rbegin" -> storage_rend(c.L)
    [] ~c.mut /\ ~c.bc /\ c.fn = "storage_crbegin" -> storage_crend(c.L)
    [] ~c.mut /\ c.bc /\ c.fn = "begin" -> end_s(c.S, c.L)
    [] ~c.mut /\ c.bc /\ c.fn = "cbegin" -> cend_s(c.S, c.L)
    [] ~c.mut /\ c.bc /\ c.fn = "rbegin" -> rend_s(c.S, c.L)
    [] ~c.mut /\ c.bc /\ c.fn = "crbegin" -> crend_s(c.S, c.L)
    [] c.mut /\ ~c.bc /\ c.fn = "begin" -> m_end(c.L)
    [] c.mut /\ ~c.bc /\ c.fn = "rbegin" -> m_rend(c.L)
    [] c.mut /\ ~c.bc /\ c.fn = "storage_begin" -> m_storage_end(c.L)
    [] c.mut /\ ~c.bc /\ c.fn = "storage_rbegin" -> m_storage_rend(c.L)
    [] c.mut /\ c.bc /\ c.fn = "begin" -> m_end_s(c.S, c.L)
    [] c.mut /\ c.bc /\ c.fn = "rbegin" -> m_rend_s(c.S, c.L)

\* Values a consumer assigns through a mutable iterator.
NewValues == {0, 9}

\* The elements of a container of shape S before any assignment.
InitData(S) == [i \in 1..Size(S) |-> i]

Init ==
  /\ shape \in Shapes
  /\ data = InitData(shape)
  /\ call = NoCall
  /\ it = NoIt
  /\ last = NoIt
  /\ out = <<>>
  /\ it2 = NoIt
  /\ out2 = <<>>
  /\ writes = 0

\* The consumer holds no iterator.
Idle == call = NoCall

\* The consumer calls an entry point and its matching end entry point.
Enter(c) ==
  /\ call' = c
  /\ it' = First(c)
  /\ last' = Last(c)
  /\ out' = <<>>
  /\ it2' = NoIt
  /\ out2' = <<>>
  /\ UNCHANGED <<shape, data, writes>>

\* begin<L>() const ... storage_crbegin<L>() const, on the container's own shape
CallConst ==
  /\ Idle
  /\ \E fn \in ConstFns, L \in Layouts :
       Enter([fn |-> fn, mut |-> FALSE, bc |-> FALSE, L |-> L, S |-> shape])

\* begin<L>() ... storage_rbegin<L>(), the mutable overloads
CallMutable ==
  /\ Idle
  /\ \E fn \in MutableFns, L \in Layouts :
       Enter([fn |-> fn, mut |-> TRUE, bc |-> FALSE, L |-> L, S |-> shape])

\* begin<S, L>(shape) const ... crbegin<S, L>(shape) const. The caller supplies
\* a shape the container can be broadcast to.
CallConstBroadcast ==
  /\ Idle
  /\ \E fn \in ConstBroadcastFns, L \in Layouts, S \in Shapes :
       /\ Compatible(shape, S)
       /\ Enter([fn |-> fn, mut |-> FALSE, bc |-> TRUE, L |-> L, S |-> S])

\* begin<S, L>(shape), rbegin<S, L>(shape), the mutable overloads
CallMutableBroadcast ==
  /\ Idle
  /\ \E fn \in MutableBroadcastFns, L \in Layouts, S \in Shapes :
       /\ Compatible(shape, S)
       /\ Enter([fn |-> fn, mut |-> TRUE, bc |-> TRUE, L |-> L, S |-> S])

\* One turn of the consumer's loop: for (; it != last; ++it) use(*it);
Advance ==
  /\ it # NoIt
  /\ ~Equal(it, last)
  /\ out' = Append(out, Deref(it))
  /\ it' = Incr(it)
  /\ UNCHANGED <<shape, data, call, last, it2, out2, writes>>

\* *it = v through a mutable iterator
Write ==
  /\ it # NoIt
  /\ call.mut
  /\ ~Equal(it, last)
  /\ writes < MaxWrites
  /\ \E v \in NewValues : data' = [data EXCEPT ![Deref(it).ref] = v]
  /\ writes' = writes + 1
  /\ UNCHANGED <<shape, call, it, last, out, it2, out2>>

\* The consumer calls the same entry point a second time.
Again ==
  /\ call # NoCall
  /\ it2' = First(call)
  /\ out2' = <<>>
  /\ UNCHANGED <<shape, data, call, it, last, out, writes>>

\* The consumer copies its iterator.
Copy ==
  /\ it # NoIt
  /\ it2' = it
  /\ out2' = out
  /\ UNCHANGED <<shape, data, call, it, last, out, writes>>

\* The consumer discards its iterators.
Release ==
  /\ call # NoCall
  /\ call' = NoCall
  /\ it' = NoIt
  /\ last' = NoIt
  /\ out' = <<>>
  /\ it2' = NoIt
  /\ out2' = <<>>
  /\ UNCHANGED <<shape, data, writes>>

\* One turn of the loop on the second iterator.
Advance2 ==
  /\ it2 # NoIt
  /\ ~Equal(it2, last)
  /\ out2' = Append(out2, Deref(it2))
  /\ it2' = Incr(it2)
  /\ UNCHANGED <<shape, data, call, it, last, out, writes>>

Next ==
  \/ CallConst
  \/ CallMutable
  \/ CallConstBroadcast
  \/ CallMutableBroadcast
  \/ Advance
  \/ Write
  \/ Release

\* A consumer that mutates the container through its iterator.
Spec == Init /\ [][Next]_vars

NextTwo ==
  \/ CallConst
  \/ CallMutable
  \/ CallConstBroadcast
  \/ CallMutableBroadcast
  \/ Advance
  \/ Again
  \/ Copy
  \/ Advance2
  \/ Release

\* A consumer that holds two iterators over an unmodified container.
SpecTwo == Init /\ [][NextTwo]_vars

\* begin<S, L>(shape) const ... crbegin<S, L>(shape) const with any shape: the
\* entry points take whatever shape the caller supplies.
CallConstBroadcastAny ==
  /\ Idle
  /\ \E fn \in ConstBroadcastFns, L \in Layouts, S \in Shapes :
       Enter([fn |-> fn, mut |-> FALSE, bc |-> TRUE, L |-> L, S |-> S])

\* begin<S, L>(shape), rbegin<S, L>(shape), the mutable overloads, with any shape
CallMutableBroadcastAny ==
  /\ Idle
  /\ \E fn \in MutableBroadcastFns, L \in Layouts, S \in Shapes :
       Enter([fn |-> fn, mut |-> TRUE, bc |-> TRUE, L |-> L, S |-> S])

\* One turn of the consumer's loop where the stepper factory defines it: the
\* driving shape is one the container can be broadcast to.
AdvanceDefined ==
  /\ ~Idle
  /\ Compatible(shape, call.S)
  /\ Advance

NextAny ==
  \/ CallConst
  \/ CallMutable
  \/ CallConstBroadcastAny
  \/ CallMutableBroadcastAny
  \/ AdvanceDefined
  \/ Release

\* A consumer that supplies arbitrary shapes to the broadcast entry points.
SpecAny == Init /\ [][NextAny]_vars

\* ------------------------------------------------------------------ properties
RECURSIVE ProdFrom(_, _, _)
ProdFrom(S, a, b) == IF a > b THEN 1 ELSE S[a] * ProdFrom(S, a + 1, b)

\* The k-th (from 0) index of the index space of S in the order of layout L:
\* row-major varies the last dimension fastest, column-major the first.
LayoutIndex(S, L, k) ==
  [d \in 1..Len(S) |->
     IF L = row_major
       THEN (k \div ProdFrom(S, d + 1, Len(S))) % S[d]
       ELSE (k \div ProdFrom(S, 1, d - 1)) % S[d]]

ReverseSeq(s) == [i \in 1..Len(s) |-> s[Len(s) + 1 - i]]

Vals(s) == [i \in 1..Len(s) |-> s[i].val]

Places(s) == [i \in 1..Len(s) |-> [idx |-> s[i].idx, ref |-> s[i].ref]]

\* What the loop for (i = f; i != l; ++i) yields, cut after n turns.
RECURSIVE Run(_, _, _)
Run(f, l, n) ==
  IF n = 0 \/ Equal(f, l) THEN <<>> ELSE <<Deref(f)>> \o Run(Incr(f), l, n - 1)

\* The sequence a traversal from f to l yields (cut one turn after the size of
\* the driving shape, which no traversal of that shape exceeds).
Traverse(f, l) == Run(f, l, Size(Base(f).st.shape) + 1)

Called == call # NoCall

Finished == Called /\ Equal(it, last)

Plain == Called /\ ~call.bc

Forward == Called /\ call.fn \notin ReverseFns

\* C1: on the container's own shape S of N elements and for every layout L, a
\* traversal from begin<L>() compares equal to end<L>() after exactly N
\* advances and not earlier (at once when N = 0), and the dereferences made on
\* the way visit the logical positions of S in the order of L, each once and
\* each designating its own element.
Thm_C1 ==
  (Plain /\ Forward) =>
    /\ Len(out) <= Size(shape)
    /\ Equal(it, last) <=> (Len(out) = Size(shape))
    /\ \A i \in 1..Len(out) :
         /\ out[i].idx = LayoutIndex(shape, call.L, i - 1)
         /\ LayoutIndex(shape, row_major, out[i].ref - 1) = out[i].idx
    /\ \A i, j \in 1..Len(out) : i # j => out[i].idx # out[j].idx

\* C1 witness: a column-major traversal of a 2x3 container has reached end
\* after six advances.
Wit_C1 ==
  /\ Plain /\ Forward
  /\ shape = <<2, 3>>
  /\ call.L = column_major
  /\ Equal(it, last)
  /\ Len(out) = 6

\* The forward entry points that match a reverse call: begin/end of the same
\* constness and layout.
ForwardFirst(c) == IF c.mut THEN m_begin(c.L) ELSE begin(c.L)

ForwardLast(c) == IF c.mut THEN m_end(c.L) ELSE end(c.L)

\* C2: for every layout L, the sequence yielded from rbegin<L>() to rend<L>()
\* (const rbegin/crbegin and mutable rbegin) is the reverse of the sequence
\* yielded from begin<L>() to end<L>().
Thm_C2 ==
  (Plain /\ call.fn \in {"rbegin", "crbegin"}) =>
    LET fwd == ReverseSeq(Traverse(ForwardFirst(call), ForwardLast(call)))
    IN  /\ Len(out) <= Len(fwd)
        /\ \A i \in 1..Len(out) : out[i] = fwd[i]
        /\ Equal(it, last) <=> (Len(out) = Len(fwd))

\* C2 witness: a reverse column-major traversal of a 2x3 container is complete.
Wit_C2 ==
  /\ Plain
  /\ call.fn = "rbegin"
  /\ shape = <<2, 3>>
  /\ call.L = column_major
  /\ Equal(it, last)
  /\ Len(out) = 6

\* The forward iterator a reverse iterator holds.
Held(r) == r.current

\* C3 as stated: the iterator held inside rbegin<L>() is the very value end<L>()
\* returns, and the one inside rend<L>() the very value begin<L>() returns
\* (stepper, shape reference, layout and reverse flag).
Orig_C3 ==
  (Plain /\ call.fn \in {"rbegin", "crbegin"}) =>
    /\ Held(last) = ForwardFirst(call)
    /\ (out = <<>>) => (Held(it) = ForwardLast(call))

\* C3 amended: the iterator held inside rbegin<L>() has the stepper, the shape
\* reference and the layout of the iterator end<L>() returns and compares equal
\* to it, and likewise rend<L>() and begin<L>(); the held iterator is built
\* with the reverse flag set, the forward entry point's iterator with the flag
\* clear. Its stepper is the one the forward factory gives.
Thm_C3 ==
  (Plain /\ call.fn \in {"rbegin", "crbegin"}) =>
    /\ Held(last) = [ForwardFirst(call) EXCEPT !.reverse = TRUE]
    /\ ~ForwardFirst(call).reverse
    /\ Equal(Held(last), ForwardFirst(call))
    /\ (out = <<>>) =>
         /\ Held(it) = [ForwardLast(call) EXCEPT !.reverse = TRUE]
         /\ ~ForwardLast(call).reverse
         /\ Equal(Held(it), ForwardLast(call))

\* C3 witness: crbegin<column_major>() has just been called on a 2x3 container.
Wit_C3 ==
  /\ Plain
  /\ call.fn = "crbegin"
  /\ call.L = column_major
  /\ shape = <<2, 3>>
  /\ out = <<>>
  /\ Held(it).reverse
  /\ Held(it).st.past

\* The call of the same kind under another entry point's name.
Named(c, fn) == [c EXCEPT !.fn = fn]

\* C4: for every layout L, cbegin<L>()/cend<L>() return iterators equal to the
\* ones the const begin<L>()/end<L>() return and yield the same sequence.
Thm_C4 ==
  (Plain /\ ~call.mut /\ call.fn \in {"begin", "cbegin"}) =>
    LET twin == Named(call, IF call.fn = "begin" THEN "cbegin" ELSE "begin")
        seq == Traverse(First(twin), Last(twin))
    IN  /\ last = Last(twin)
        /\ (out = <<>>) => (it = First(twin))
        /\ Len(out) <= Len(seq)
        /\ \A i \in 1..Len(out) : out[i] = seq[i]
        /\ Equal(it, last) <=> (Len(out) = Len(seq))

\* C4 witness: a cbegin<column_major>() traversal of a 2x3 container is complete.
Wit_C4 ==
  /\ Plain /\ ~call.mut
  /\ call.fn = "cbegin"
  /\ call.L = column_major
  /\ shape = <<2, 3>>
  /\ Equal(it, last)
  /\ Len(out) = 6

\* C5: a traversal driven by a caller-supplied compatible shape of M elements
\* (forward or reverse, const or mutable) ends after exactly M advances and
\* visits M distinct positions of that shape, whatever the container's size.
Thm_C5 ==
  (Called /\ call.bc) =>
    /\ Len(out) <= Size(call.S)
    /\ Equal(it, last) <=> (Len(out) = Size(call.S))
    /\ \A i, j \in 1..Len(out) : i # j => out[i].idx # out[j].idx
    /\ \A i \in 1..Len(out) :
         \A d \in 1..Len(call.S) : out[i].idx[d] \in 0..(call.S[d] - 1)

\* C5 witness: a container of 3 elements has been traversed over the shape
\* 2x3: six positions.
Wit_C5 ==
  /\ Called /\ call.bc
  /\ shape = <<3>>
  /\ call.S = <<2, 3>>
  /\ call.fn = "crbegin"
  /\ Equal(it, last)
  /\ Len(out) = 6

\* What an iterator has yielded followed by what it has yet to yield.
Whole(i, o) == o \o Run(i, last, Size(Base(last).st.shape) + 1)

\* C6: every call of begin<L>() gives an iterator at the first element; two
\* iterators from two calls of begin<L>(), or an iterator and its copy, yield
\* the same sequence, the complete traversal, however their advances interleave.
Thm_C6 ==
  (Plain /\ call.fn = "begin") =>
    /\ Len(Whole(it, out)) = Size(shape)
    /\ \A i \in 1..Len(Whole(it, out)) :
         Whole(it, out)[i].idx = LayoutIndex(shape, call.L, i - 1)
    /\ (it2 # NoIt) => (Whole(it2, out2) = Whole(it, out))

\* C6 witness: two iterators over a 2x3 container stand at different positions,
\* the second one obtained after the first had advanced.
Wit_C6 ==
  /\ Plain
  /\ call.fn = "begin"
  /\ shape = <<2, 3>>
  /\ it2 # NoIt
  /\ Len(out) = 4
  /\ Len(out2) = 1
  /\ ~Equal(it, it2)

\* The 2x3 container stored row-major with the values 1..6.
Scenario == shape = <<2, 3>> /\ data = <<1, 2, 3, 4, 5, 6>>

IsPrefix(s, t) == Len(s) <= Len(t) /\ \A i \in 1..Len(s) : s[i] = t[i]

\* The traversal is yielding exactly the values of `expected`.
Yields(expected) ==
  /\ IsPrefix(Vals(out), expected)
  /\ Equal(it, last) <=> (Len(out) = Len(expected))

\* C7: on the 2x3 container 1..6, begin(row_major)..end(row_major) yields
\* 1,2,3,4,5,6; begin(col_major)..end(col_major) yields 1,4,2,5,3,6;
\* rbegin(row_major)..rend(row_major) yields 6,5,4,3,2,1.
Thm_C7 ==
  (Scenario /\ Plain) =>
    /\ (call.fn = "begin" /\ call.L = row_major) => Yields(<<1, 2, 3, 4, 5, 6>>)
    /\ (call.fn = "begin" /\ call.L = column_major) => Yields(<<1, 4, 2, 5, 3, 6>>)
    /\ (call.fn = "rbegin" /\ call.L = row_major) => Yields(<<6, 5, 4, 3, 2, 1>>)

\* C7 witness: the column-major traversal of the scenario is complete.
Wit_C7 ==
  /\ Scenario /\ Plain
  /\ call.fn = "begin"
  /\ call.L = column_major
  /\ Equal(it, last)
  /\ Vals(out) = <<1, 4, 2, 5, 3, 6>>

\* The number of positions an iterator of the call has passed when it has
\* yielded n elements, counted in the forward order of the layout.
Step(n) ==
  IF call.fn \in ReverseFns THEN Size(call.S) - 1 - n ELSE n

\* The container index a position of the driving shape designates.
Designated(idx) ==
  [j \in 1..Len(shape) |->
     IF shape[j] = 1 THEN 0 ELSE idx[Len(call.S) - Len(shape) + j]]

\* An assignment through the iterator changes the element at the logical
\* position the iterator designates, and nothing else.
WriteFrame ==
  (writes' # writes) =>
    LET at == Deref(it) IN
      /\ at.idx = LayoutIndex(call.S, call.L, Step(Len(out)))
      /\ at.ref \in DOMAIN data
      /\ LayoutIndex(shape, row_major, at.ref - 1) = Designated(at.idx)
      /\ DOMAIN data' = DOMAIN data
      /\ data'[at.ref] \in NewValues
      /\ \A r \in DOMAIN data \ {at.ref} : data'[r] = data[r]
      /\ (Scenario /\ Plain /\ call.fn = "begin" /\ call.L = row_major /\ Len(out) = 2) =>
           /\ at.idx = <<0, 2>>
           /\ at.val = 3
           /\ data' = [data EXCEPT ![3] = data'[3]]

\* A const row-major traversal of the 2x3 container whose position (0,2) was
\* assigned v yields 1,2,v,4,5,6.
Observed ==
  \A v \in NewValues :
    (/\ shape = <<2, 3>>
     /\ data = <<1, 2, v, 4, 5, 6>>
     /\ Plain /\ ~call.mut
     /\ call.fn = "begin" /\ call.L = row_major) => Yields(<<1, 2, v, 4, 5, 6>>)

\* C8: writing through a mutable iterator modifies exactly the element at the
\* logical position the iterator designates; on the 2x3 container 1..6 the
\* iterator from begin(row_major), advanced twice and assigned v, changes
\* position (0,2) from 3 to v and nothing else, and a later const traversal
\* begin(row_major)..end(row_major) yields 1,2,v,4,5,6.
Thm_C8 == [][WriteFrame]_vars /\ []Observed

\* C8 witness: the mutable iterator from begin(row_major), advanced twice, has
\* just been assigned 9 on the 2x3 container.
Wit_C8 ==
  /\ shape = <<2, 3>>
  /\ Plain /\ call.mut
  /\ call.fn = "begin" /\ call.L = row_major
  /\ Len(out) = 2
  /\ writes = 1
  /\ data = <<1, 2, 9, 4, 5, 6>>
  /\ Deref(it).idx = <<0, 2>>

\* The const call that matches a mutable call.
Const(c) == [c EXCEPT !.mut = FALSE]

\* C9: over the same container, driving shape and layout, the mutable
\* iterator pair visits the same positions in the same order and number of
\* steps as the const pair, forward and reverse, plain and broadcast.
Thm_C9 ==
  (Called /\ call.mut) =>
    LET seq == Places(Traverse(First(Const(call)), Last(Const(call))))
    IN  /\ IsPrefix(Places(out), seq)
        /\ Equal(it, last) <=> (Len(out) = Len(seq))

\* C9 witness: a mutable reverse traversal of a 3-element container broadcast
\* to 2x3 is complete.
Wit_C9 ==
  /\ Called /\ call.mut /\ call.bc
  /\ call.fn = "rbegin"
  /\ shape = <<3>>
  /\ call.S = <<2, 3>>
  /\ call.L = column_major
  /\ Equal(it, last)
  /\ Len(out) = 6

\* The entry point a storage entry point stands for.
Logical(fn) ==
  CASE fn = "storage_begin" -> "begin"
    [] fn = "storage_cbegin" -> "cbegin"
    [] fn = "storage_rbegin" -> "rbegin"
    [] fn = "storage_crbegin" -> "crbegin"

StorageFns == {"storage_begin", "storage_cbegin", "storage_rbegin", "storage_crbegin"}

\* C10: every storage entry point (const and mutable) returns iterators equal
\* to those of its logical counterpart under the same layout and yields the
\* same sequence.
Thm_C10 ==
  (Called /\ call.fn \in StorageFns) =>
    LET twin == Named(call, Logical(call.fn))
        seq == Traverse(First(twin), Last(twin))
    IN  /\ last = Last(twin)
        /\ (out = <<>>) => (it = First(twin))
        /\ IsPrefix(out, seq)
        /\ Equal(it, last) <=> (Len(out) = Len(seq))

\* C10 witness: a storage_crbegin traversal of a 2x3 container under the
\* default layout is complete.
Wit_C10 ==
  /\ Called
  /\ call.fn = "storage_crbegin"
  /\ call.L = DL
  /\ shape = <<2, 3>>
  /\ Equal(it, last)
  /\ Len(out) = 6

\* The forward iterator built at the begin endpoint by the call, and the one
\* built at the end endpoint (a reverse call holds them the other way round).
\* The begin side of a forward call and the end side of a reverse call are
\* the consumer's iterator before its first advance.
AtBegin == IF call.fn \in ReverseFns THEN Held(last) ELSE it

AtEnd == IF call.fn \in ReverseFns THEN Held(it) ELSE last

\* The shape the call must request its steppers for, and the shape reference
\* it must drive its iterators with.
Requested == IF call.bc THEN call.S ELSE shape

Driving == IF call.bc THEN [own |-> FALSE, ext |-> call.S] ELSE [own |-> TRUE, ext |-> shape]

\* C11: every broadcast entry point requests its steppers for the
\* caller-supplied shape and drives its iterators with that shape, whatever
\* the container's own shape is and whether or not the two are compatible,
\* and always returns iterators; every plain entry point requests them for the
\* container's own shape and drives its iterators with a reference to it. The
\* begin stepper is requested with the shape, the end stepper with the shape
\* and the layout L of the entry point.
Thm_C11 ==
  Called =>
    /\ it # NoIt /\ last # NoIt
    /\ (out = <<>> \/ call.fn \in ReverseFns) =>
         /\ AtBegin.st = stepper_begin(Requested, call.mut)
         /\ AtBegin.shape = Driving
         /\ AtBegin.L = call.L
    /\ (out = <<>> \/ call.fn \notin ReverseFns) =>
         /\ AtEnd.st = stepper_end(Requested, call.L, call.mut)
         /\ AtEnd.shape = Driving
         /\ AtEnd.L = call.L

\* C11 witness: crbegin<S, column_major>(shape) has been called with the shape
\* 3x2 on a 2x3 container, which cannot be broadcast to it.
Wit_C11 ==
  /\ Called /\ call.bc
  /\ call.fn = "crbegin"
  /\ call.L = column_major
  /\ shape = <<2, 3>>
  /\ call.S = <<3, 2>>
  /\ ~Compatible(shape, call.S)
  /\ out = <<>>
  /\ Held(it).st.past

====
